---- MODULE Spec2Model ----
(***************************************************************************)
(* Model of provisioner/ibm-s3fs-provisioner.go: the Provision and Delete  *)
(* operations of IBMS3fsProvisioner, their calls to the secret store, the  *)
(* UUID generator and the object-storage backend session, and the JSON     *)
(* maps (PV annotations, flex-volume options) that carry state from        *)
(* Provision to Delete.                                                    *)
(***************************************************************************)
EXTENDS Integers, Sequences, FiniteSets, TLC

VARIABLES
    inv,        \* per invocation slot: the locals of one Provision/Delete call
    buckets,    \* the backend: names of the buckets that exist
    volumes,    \* volumes returned by successful Provision calls (with the call log)
    delObs,     \* history: (annotations, session parameters) seen by Delete calls
    nProv,      \* number of Provision invocations started
    nDel        \* number of Delete invocations started

vars == <<inv, buckets, volumes, delObs, nProv, nDel>>

(***************************************************************************)
(* Bounds of the model.                                                    *)
(***************************************************************************)
MaxProvisions == 1
MaxDeletes == 2

(***************************************************************************)
(* Strings: strings.HasPrefix, strconv.Atoi, strconv.Itoa.                 *)
(***************************************************************************)
HasPrefix(s, p) == Len(s) >= Len(p) /\ SubSeq(s, 1, Len(p)) = p

Digits == "0123456789"

IsDigit(c) == \E d \in 1..10 : SubSeq(Digits, d, d) = c

DigitVal(c) == (CHOOSE d \in 1..10 : SubSeq(Digits, d, d) = c) - 1

RECURSIVE DigitsVal(_, _)
\* value of the digit string s, acc being the value of the digits already read
DigitsVal(s, acc) ==
    IF s = "" THEN acc
    ELSE DigitsVal(SubSeq(s, 2, Len(s)), acc * 10 + DigitVal(SubSeq(s, 1, 1)))

AllDigits(s) == s # "" /\ \A k \in 1..Len(s) : IsDigit(SubSeq(s, k, k))

\* strconv.Atoi: an optional sign followed by decimal digits
Atoi(s) ==
    LET sign == IF s = "" THEN "" ELSE SubSeq(s, 1, 1)
        body == IF sign \in {"+", "-"} THEN SubSeq(s, 2, Len(s)) ELSE s
    IN  IF AllDigits(body)
        THEN [ok |-> TRUE,
              val |-> IF sign = "-" THEN 0 - DigitsVal(body, 0) ELSE DigitsVal(body, 0)]
        ELSE [ok |-> FALSE, val |-> 0]

RECURSIVE NatStr(_)
NatStr(n) ==
    IF n < 10 THEN SubSeq(Digits, n + 1, n + 1)
    ELSE NatStr(n \div 10) \o SubSeq(Digits, (n % 10) + 1, (n % 10) + 1)

\* strconv.Itoa
Itoa(n) == IF n < 0 THEN "-" \o NatStr(0 - n) ELSE NatStr(n)

(***************************************************************************)
(* The JSON structs.  A struct is a record; its table lists, for each      *)
(* field, the JSON key, the Go type and the omitempty option of its tag.   *)
(***************************************************************************)
Fld(f, key, typ, omit) == [f |-> f, key |-> key, typ |-> typ, omitempty |-> omit]

pvcAnnotations ==
    { Fld("AutoCreateBucket", "ibm.io/auto-create-bucket", "bool", FALSE),
      Fld("AutoDeleteBucket", "ibm.io/auto-delete-bucket", "bool", FALSE),
      Fld("Bucket", "ibm.io/bucket", "string", FALSE),
      Fld("ObjectPath", "ibm.io/object-path", "string", TRUE),
      Fld("Endpoint", "ibm.io/endpoint", "string", TRUE),
      Fld("Region", "ibm.io/region", "string", TRUE),
      Fld("SecretName", "ibm.io/secret-name", "string", FALSE),
      Fld("ChunkSizeMB", "ibm.io/chunk-size-mb", "string", TRUE),
      Fld("ParallelCount", "ibm.io/parallel-count", "string", TRUE),
      Fld("MultiReqMax", "ibm.io/multireq-max", "string", TRUE),
      Fld("StatCacheSize", "ibm.io/stat-cache-size", "string", TRUE),
      Fld("S3FSFUSERetryCount", "ibm.io/s3fs-fuse-retry-count", "string", TRUE),
      Fld("StatCacheExpireSeconds", "ibm.io/stat-cache-expire-seconds", "string", TRUE),
      Fld("IAMEndpoint", "ibm.io/iam-endpoint", "string", TRUE),
      Fld("ValidateBucket", "ibm.io/validate-bucket", "string", TRUE) }

\* pvAnnotations embeds pvcAnnotations: its fields are promoted
pvAnnotations ==
    pvcAnnotations \cup { Fld("SecretNamespace", "ibm.io/secret-namespace", "string", FALSE) }

scOptions ==
    { Fld("ChunkSizeMB", "ibm.io/chunk-size-mb", "int", FALSE),
      Fld("ParallelCount", "ibm.io/parallel-count", "int", FALSE),
      Fld("MultiReqMax", "ibm.io/multireq-max", "int", FALSE),
      Fld("StatCacheSize", "ibm.io/stat-cache-size", "int", FALSE),
      Fld("TLSCipherSuite", "ibm.io/tls-cipher-suite", "string", TRUE),
      Fld("DebugLevel", "ibm.io/debug-level", "string", FALSE),
      Fld("CurlDebug", "ibm.io/curl-debug", "bool", TRUE),
      Fld("KernelCache", "ibm.io/kernel-cache", "bool", TRUE),
      Fld("S3FSFUSERetryCount", "ibm.io/s3fs-fuse-retry-count", "int", TRUE),
      Fld("IAMEndpoint", "ibm.io/iam-endpoint", "string", TRUE),
      Fld("OSEndpoint", "ibm.io/object-store-endpoint", "string", TRUE),
      Fld("OSStorageClass", "ibm.io/object-store-storage-class", "string", TRUE) }

\* driver.Options, the struct marshalled into the flex-volume options: the
\* fields Provision sets, keyed by the annotation names without "ibm.io/"
driverOptions ==
    { Fld("ChunkSizeMB", "chunk-size-mb", "int", FALSE),
      Fld("ParallelCount", "parallel-count", "int", FALSE),
      Fld("MultiReqMax", "multireq-max", "int", FALSE),
      Fld("StatCacheSize", "stat-cache-size", "int", FALSE),
      Fld("TLSCipherSuite", "tls-cipher-suite", "string", TRUE),
      Fld("CurlDebug", "curl-debug", "bool", TRUE),
      Fld("KernelCache", "kernel-cache", "bool", TRUE),
      Fld("DebugLevel", "debug-level", "string", FALSE),
      Fld("S3FSFUSERetryCount", "s3fs-fuse-retry-count", "string", TRUE),
      Fld("StatCacheExpireSeconds", "stat-cache-expire-seconds", "string", TRUE),
      Fld("IAMEndpoint", "iam-endpoint", "string", TRUE),
      Fld("OSEndpoint", "object-store-endpoint", "string", TRUE),
      Fld("OSStorageClass", "object-store-storage-class", "string", TRUE),
      Fld("Bucket", "bucket", "string", FALSE),
      Fld("ObjectPath", "object-path", "string", TRUE) }

\* the zero value of a Go type
ZeroOf(typ) == CASE typ = "bool" -> FALSE [] typ = "int" -> 0 [] OTHER -> ""

ZeroStruct(table) ==
    [f \in {d.f : d \in table} |-> ZeroOf((CHOOSE d \in table : d.f = f).typ)]

IsZero(typ, v) == CASE typ = "bool" -> v = FALSE [] typ = "int" -> v = 0 [] OTHER -> v = ""

\* the JSON string a field value is written as (bool and int carry ",string")
Encode(typ, v) ==
    CASE typ = "bool" -> (IF v THEN "true" ELSE "false")
      [] typ = "int" -> Itoa(v)
      [] OTHER -> v

\* whether the JSON string s can be read into a field of the type
Decodable(typ, s) ==
    CASE typ = "bool" -> s \in {"true", "false"}
      [] typ = "int" -> Atoi(s).ok /\ SubSeq(s, 1, 1) # "+"
      [] OTHER -> TRUE

Decode(typ, s) ==
    CASE typ = "bool" -> s = "true"
      [] typ = "int" -> Atoi(s).val
      [] OTHER -> s

\* parser.MarshalToMap: the struct as JSON, read back as a map of strings;
\* a field tagged omitempty that holds its zero value has no key
MarshalToMap(table, s) ==
    LET present == {d \in table : ~(d.omitempty /\ IsZero(d.typ, s[d.f]))}
    IN  [k \in {d.key : d \in present} |->
            LET d == CHOOSE d \in present : d.key = k IN Encode(d.typ, s[d.f])]

\* parser.UnmarshalMap: the map as JSON, read into the (zero-valued) struct;
\* keys no field is tagged with are ignored, absent keys leave the zero value
UnmarshalMap(table, m) ==
    IF \E d \in table : d.key \in DOMAIN m /\ ~Decodable(d.typ, m[d.key])
    THEN [ok |-> FALSE, val |-> ZeroStruct(table)]
    ELSE [ok |-> TRUE,
          val |-> [f \in {d.f : d \in table} |->
                      LET d == CHOOSE d \in table : d.f = f
                      IN  IF d.key \in DOMAIN m THEN Decode(d.typ, m[d.key])
                          ELSE ZeroOf(d.typ)]]

\* Go's map index expression m[k]: the zero value when the key is absent
MapGet(m, k) == IF k \in DOMAIN m THEN m[k] ELSE ""

(***************************************************************************)
(* Inputs: claim annotations, storage-class parameters, the responses of   *)
(* the collaborators.                                                      *)
(***************************************************************************)
NoMap == [k \in {} |-> ""]

\* a one-key map, or no key for the empty string
Opt(k, v) == IF v = "" THEN NoMap ELSE (k :> v)

Namespaces == {"ns1"}

\* the policy-relevant annotations of a claim
PolicyAnnotations ==
    { ("ibm.io/auto-create-bucket" :> ac) @@ ("ibm.io/auto-delete-bucket" :> ad)
        @@ ("ibm.io/secret-name" :> "s1")
        @@ Opt("ibm.io/bucket", b) @@ Opt("ibm.io/object-path", op)
        @@ Opt("ibm.io/validate-bucket", vb) :
        ac \in {"true", "false"}, ad \in {"true", "false"}, b \in {"", "b1"},
        op \in {"", "dir1"}, vb \in {"", "no"} }

\* the claim-level overrides of a claim
OverrideAnnotations ==
    { NoMap,
      ("ibm.io/endpoint" :> "http://s3.clm") @@ ("ibm.io/region" :> "us-geo")
        @@ ("ibm.io/iam-endpoint" :> "https://iam.clm"),
      ("ibm.io/chunk-size-mb" :> "52") @@ ("ibm.io/s3fs-fuse-retry-count" :> "3")
        @@ ("ibm.io/stat-cache-expire-seconds" :> "7"),
      ("ibm.io/parallel-count" :> "x1"),
      ("ibm.io/stat-cache-expire-seconds" :> "-1"),
      ("ibm.io/iam-endpoint" :> "iam.clm") }

\* claims whose annotations cannot be unmarshalled
MalformedAnnotations ==
    { ("ibm.io/auto-create-bucket" :> "yes") @@ ("ibm.io/auto-delete-bucket" :> "false")
        @@ ("ibm.io/bucket" :> "b1") @@ ("ibm.io/secret-name" :> "s1") }

\* the claims the overrides are tried on: a claim for a generated bucket and
\* a claim for an existing one
OverrideBases ==
    { a \in PolicyAnnotations :
        /\ "ibm.io/object-path" \notin DOMAIN a
        /\ "ibm.io/validate-bucket" \notin DOMAIN a
        /\ a["ibm.io/auto-create-bucket"] = a["ibm.io/auto-delete-bucket"]
        /\ ("ibm.io/bucket" \in DOMAIN a) = (a["ibm.io/auto-delete-bucket"] = "false") }

\* the claims asking to delete a bucket they do not ask to create, with the
\* same overrides
RejectedBases ==
    { a \in PolicyAnnotations :
        /\ DOMAIN a \cap {"ibm.io/object-path", "ibm.io/validate-bucket", "ibm.io/bucket"} = {}
        /\ a["ibm.io/auto-create-bucket"] = "false"
        /\ a["ibm.io/auto-delete-bucket"] = "true" }

ClaimAnnotations ==
    PolicyAnnotations
      \cup { o @@ a : a \in OverrideBases \cup RejectedBases, o \in OverrideAnnotations }
      \cup MalformedAnnotations

ClassTuning ==
    ("ibm.io/chunk-size-mb" :> "16") @@ ("ibm.io/parallel-count" :> "20")
      @@ ("ibm.io/multireq-max" :> "20") @@ ("ibm.io/stat-cache-size" :> "100000")
      @@ ("ibm.io/debug-level" :> "warn") @@ ("ibm.io/iam-endpoint" :> "https://iam.cls")

ClassParameters ==
    { ClassTuning @@ ("ibm.io/object-store-endpoint" :> "https://s3.cls")
        @@ ("ibm.io/object-store-storage-class" :> "standard")
        @@ ("ibm.io/s3fs-fuse-retry-count" :> "5"),
      ClassTuning @@ ("ibm.io/object-store-endpoint" :> "s3.cls"),
      ("ibm.io/chunk-size-mb" :> "big") @@ ClassTuning
        @@ ("ibm.io/object-store-endpoint" :> "https://s3.cls") }

\* the overridable fields: the annotation of the claim, the parameter of the
\* class and the flex-volume option that carry each
StringOverrides ==
    { [claim |-> "ibm.io/endpoint", class |-> "ibm.io/object-store-endpoint",
       option |-> "object-store-endpoint", sample |-> "http://s3.clm"],
      [claim |-> "ibm.io/region", class |-> "ibm.io/object-store-storage-class",
       option |-> "object-store-storage-class", sample |-> "us-geo"],
      [claim |-> "ibm.io/iam-endpoint", class |-> "ibm.io/iam-endpoint",
       option |-> "iam-endpoint", sample |-> "https://iam.clm"] }

IntOverrides ==
    { [claim |-> "ibm.io/s3fs-fuse-retry-count", class |-> "ibm.io/s3fs-fuse-retry-count",
       option |-> "s3fs-fuse-retry-count", sample |-> "+3"],
      [claim |-> "ibm.io/chunk-size-mb", class |-> "ibm.io/chunk-size-mb",
       option |-> "chunk-size-mb", sample |-> "52"],
      [claim |-> "ibm.io/parallel-count", class |-> "ibm.io/parallel-count",
       option |-> "parallel-count", sample |-> "4"],
      [claim |-> "ibm.io/multireq-max", class |-> "ibm.io/multireq-max",
       option |-> "multireq-max", sample |-> "0"],
      [claim |-> "ibm.io/stat-cache-size", class |-> "ibm.io/stat-cache-size",
       option |-> "stat-cache-size", sample |-> "007"] }

\* the annotations that override the fields of a set
RECURSIVE SampleOverrides(_)
SampleOverrides(fs) ==
    IF fs = {} THEN NoMap
    ELSE LET f == CHOOSE f \in fs : TRUE
         IN  (f.claim :> f.sample) @@ SampleOverrides(fs \ {f})

\* claims that override any subset of the overridable fields
TuningAnnotations ==
    { SampleOverrides(fs) @@ a :
        fs \in SUBSET (StringOverrides \cup IntOverrides), a \in OverrideBases }

\* a class that sets every overridable field and a class that sets none
TuningParameters ==
    { ClassTuning @@ ("ibm.io/object-store-endpoint" :> "https://s3.cls")
        @@ ("ibm.io/object-store-storage-class" :> "standard")
        @@ ("ibm.io/s3fs-fuse-retry-count" :> "5"),
      ("ibm.io/debug-level" :> "warn") }

\* tokens the UUID generator may return
Tokens == {"t1", "t2"}

\* driver.SecretAPIKey, SecretAccessKey, SecretSecretKey, SecretServiceInstanceID
SecretAPIKey == "api-key"
SecretAccessKey == "access-key"
SecretSecretKey == "secret-key"
SecretServiceInstanceID == "service-instance-id"

\* what Secrets(ns).Get(name) may answer: no such secret, or a secret's data
SecretResponses ==
    { [found |-> FALSE, data |-> NoMap] } \cup
    { [found |-> TRUE, data |-> d] :
        d \in { (SecretAccessKey :> "AK") @@ (SecretSecretKey :> "SK"),
                (SecretAccessKey :> "AK"),
                (SecretAPIKey :> "APIK") @@ (SecretServiceInstanceID :> "SID"),
                (SecretAPIKey :> "APIK"),
                (SecretAPIKey :> "") @@ (SecretAccessKey :> "AK") @@ (SecretSecretKey :> "SK"),
                NoMap } }

(***************************************************************************)
(* getCredentials                                                          *)
(***************************************************************************)
parseSecret(data, keyName) ==
    IF keyName \in DOMAIN data THEN [ok |-> TRUE, val |-> data[keyName]]
    ELSE [ok |-> FALSE, val |-> ""]

NilCreds ==
    [nil |-> TRUE, AccessKey |-> "", SecretKey |-> "", APIKey |-> "",
     ServiceInstanceID |-> "", IAMEndpoint |-> ""]

\* the credentials built from the answer of the secret store
getCredentials(resp) ==
    LET api == parseSecret(resp.data, SecretAPIKey)
        acc == parseSecret(resp.data, SecretAccessKey)
        sec == parseSecret(resp.data, SecretSecretKey)
        sid == parseSecret(resp.data, SecretServiceInstanceID)
    IN  IF ~resp.found THEN [ok |-> FALSE, creds |-> NilCreds]
        ELSE IF ~api.ok
        THEN IF ~acc.ok \/ ~sec.ok THEN [ok |-> FALSE, creds |-> NilCreds]
             ELSE [ok |-> TRUE,
                   creds |-> [NilCreds EXCEPT !.nil = FALSE, !.AccessKey = acc.val,
                                             !.SecretKey = sec.val]]
        ELSE [ok |-> TRUE,
              creds |-> [NilCreds EXCEPT !.nil = FALSE, !.APIKey = api.val,
                                        !.ServiceInstanceID = sid.val]]

NilSession == [nil |-> TRUE, endpoint |-> "", region |-> "", creds |-> NilCreds]

\* Backend.NewObjectStorageSession: the session holds what it was opened with
NewObjectStorageSession(endpoint, region, creds) ==
    [nil |-> FALSE, endpoint |-> endpoint, region |-> region, creds |-> creds]

(***************************************************************************)
(* Provision: resolution of the configuration and policy validation.       *)
(***************************************************************************)
autoBucketNamePrefix == "tmp-s3fs-"

HasScheme(e) == HasPrefix(e, "https://") \/ HasPrefix(e, "http://")

\* a claim-level string that overrides the class-level one when not empty
Override_ClassWins(claimVal, classVal) == IF classVal # "" THEN classVal ELSE claimVal

Override(claimVal, classVal) == IF claimVal # "" THEN claimVal ELSE classVal

\* a claim-level decimal string that overrides the class-level integer
OverrideInt(claimVal, classVal) == IF claimVal # "" THEN Atoi(claimVal).val ELSE classVal

BadInt(claimVal) == claimVal # "" /\ ~Atoi(claimVal).ok

\* the storage-class options after the claim-level overrides
ResolvedOptions(pvc, sc) ==
    [sc EXCEPT !.OSEndpoint = Override(pvc.Endpoint, sc.OSEndpoint),
               !.OSStorageClass = Override(pvc.Region, sc.OSStorageClass),
               !.IAMEndpoint = Override(pvc.IAMEndpoint, sc.IAMEndpoint),
               !.S3FSFUSERetryCount = OverrideInt(pvc.S3FSFUSERetryCount, sc.S3FSFUSERetryCount),
               !.ChunkSizeMB = OverrideInt(pvc.ChunkSizeMB, sc.ChunkSizeMB),
               !.ParallelCount = OverrideInt(pvc.ParallelCount, sc.ParallelCount),
               !.MultiReqMax = OverrideInt(pvc.MultiReqMax, sc.MultiReqMax),
               !.StatCacheSize = OverrideInt(pvc.StatCacheSize, sc.StatCacheSize)]

\* the first check of the resolution that fails, "" when none does
ResolveError(pvc, sc) ==
    LET r == ResolvedOptions(pvc, sc)
    IN  IF ~HasScheme(r.OSEndpoint) THEN "object-store-endpoint"
        ELSE IF ~HasScheme(r.IAMEndpoint) THEN "iam-endpoint"
        ELSE IF BadInt(pvc.S3FSFUSERetryCount) THEN "s3fs-fuse-retry-count"
        ELSE IF BadInt(pvc.ChunkSizeMB) THEN "chunk-size-mb"
        ELSE IF BadInt(pvc.ParallelCount) THEN "parallel-count"
        ELSE IF BadInt(pvc.MultiReqMax) THEN "multireq-max"
        ELSE IF BadInt(pvc.StatCacheSize) THEN "stat-cache-size"
        ELSE IF BadInt(pvc.StatCacheExpireSeconds) THEN "stat-cache-expire-seconds"
        ELSE IF pvc.StatCacheExpireSeconds # "" /\ Atoi(pvc.StatCacheExpireSeconds).val < 0
             THEN "stat-cache-expire-seconds-negative"
        ELSE ""

PolicyError_NoObjectPathRule(pvc) ==
    IF pvc.AutoDeleteBucket
    THEN IF ~pvc.AutoCreateBucket THEN "auto-delete-without-auto-create"
         ELSE IF pvc.Bucket # "" THEN "bucket-with-auto-delete"
         ELSE ""
    ELSE IF pvc.Bucket = "" THEN "bucket-not-specified"
    ELSE ""

PolicyError_NoAutoDeleteRule(pvc) ==
    IF pvc.AutoCreateBucket /\ pvc.ObjectPath # "" THEN "object-path-with-auto-create"
    ELSE IF pvc.AutoDeleteBucket
         THEN IF pvc.Bucket # "" THEN "bucket-with-auto-delete" ELSE ""
    ELSE IF pvc.Bucket = "" THEN "bucket-not-specified"
    ELSE ""

\* the policy rule the claim breaks, "" when none
PolicyError(pvc) ==
    IF pvc.AutoCreateBucket /\ pvc.ObjectPath # "" THEN "object-path-with-auto-create"
    ELSE IF pvc.AutoDeleteBucket
         THEN IF ~pvc.AutoCreateBucket THEN "auto-delete-without-auto-create"
              ELSE IF pvc.Bucket # "" THEN "bucket-with-auto-delete"
              ELSE ""
    ELSE IF pvc.Bucket = "" THEN "bucket-not-specified"
    ELSE ""

\* whether Provision validates access to the bucket
ValBucket(pvc) == ~(pvc.ValidateBucket = "no" /\ ~pvc.AutoCreateBucket)

(***************************************************************************)
(* The invocation slots.                                                   *)
(***************************************************************************)
Slots == {1}

NilVolume == [nil |-> TRUE, Annotations |-> NoMap, Options |-> NoMap, SecretRef |-> ""]

Idle ==
    [kind |-> "none", pc |-> "idle", annotations |-> NoMap, parameters |-> NoMap,
     namespace |-> "", pv |-> NilVolume, origin |-> <<>>, tamper |-> "none",
     pvc |-> ZeroStruct(pvAnnotations), sc |-> ZeroStruct(scOptions),
     valBucket |-> TRUE, creds |-> NilCreds, sess |-> NilSession,
     endpointValue |-> "", regionValue |-> "", iamEndpoint |-> "",
     log |-> <<>>, result |-> "none", err |-> "", volume |-> NilVolume,
     bucketsAtStart |-> {}]

\* the invocation returns: its result, the failing step and the volume
Finish(st, result, err, vol) ==
    [st EXCEPT !.pc = "done", !.result = result, !.err = err, !.volume = vol]

Fail(st, err) == Finish(st, "error", err, NilVolume)

\* a nil pointer dereference: the call panics and returns nothing
Panic(st, where) == Finish(st, "panic", where, NilVolume)

Logged(st, call) == [st EXCEPT !.log = Append(@, call)]

(***************************************************************************)
(* Provision: from one collaborator call to the next.                      *)
(***************************************************************************)
\* the flex-volume options of the new volume
DriverOptionsOf(st) ==
    MarshalToMap(driverOptions,
        [ChunkSizeMB |-> st.sc.ChunkSizeMB,
         ParallelCount |-> st.sc.ParallelCount,
         MultiReqMax |-> st.sc.MultiReqMax,
         StatCacheSize |-> st.sc.StatCacheSize,
         TLSCipherSuite |-> st.sc.TLSCipherSuite,
         CurlDebug |-> st.sc.CurlDebug,
         KernelCache |-> st.sc.KernelCache,
         DebugLevel |-> st.sc.DebugLevel,
         S3FSFUSERetryCount |-> Itoa(st.sc.S3FSFUSERetryCount),
         StatCacheExpireSeconds |-> st.pvc.StatCacheExpireSeconds,
         IAMEndpoint |-> st.sc.IAMEndpoint,
         OSEndpoint |-> st.sc.OSEndpoint,
         OSStorageClass |-> st.sc.OSStorageClass,
         Bucket |-> st.pvc.Bucket,
         ObjectPath |-> st.pvc.ObjectPath])

PVAnnotationsOf_AlwaysDelete(st) ==
    MarshalToMap(pvAnnotations, [st.pvc EXCEPT !.SecretNamespace = st.namespace,
                                               !.AutoDeleteBucket = TRUE])

PVAnnotationsOf_NoNamespace(st) ==
    MarshalToMap(pvAnnotations, [st.pvc EXCEPT !.SecretNamespace = ""])

\* the annotations of the new volume: the claim's, as Provision changed them,
\* and the namespace of the claim
PVAnnotationsOf(st) ==
    MarshalToMap(pvAnnotations, [st.pvc EXCEPT !.SecretNamespace = st.namespace])

\* the volume is built and returned
BuildVolume(st) ==
    Finish(st, "ok", "",
        [nil |-> FALSE, Annotations |-> PVAnnotationsOf(st),
         Options |-> DriverOptionsOf(st), SecretRef |-> st.pvc.SecretName])

ToObjectPath_Recheck(st) ==
    IF st.valBucket /\ Len(SelectSeq(st.log, LAMBDA c : c.op = "CheckBucketAccess")) = 1
    THEN [st EXCEPT !.pc = "access"]
    ELSE IF st.pvc.ObjectPath # "" THEN [st EXCEPT !.pc = "objpath"] ELSE BuildVolume(st)

ToObjectPath(st) ==
    IF st.pvc.ObjectPath # "" THEN [st EXCEPT !.pc = "objpath"] ELSE BuildVolume(st)

ToAccess_HonoursFlag(st) ==
    IF st.valBucket /\ st.pvc.ValidateBucket # "no"
    THEN [st EXCEPT !.pc = "access"] ELSE ToObjectPath(st)

ToAccess(st) ==
    IF st.valBucket THEN [st EXCEPT !.pc = "access"] ELSE ToObjectPath(st)

ToCreate_NoGuard(st) ==
    IF st.pvc.AutoCreateBucket
    THEN IF st.creds.nil THEN Panic(st, "creds") ELSE [st EXCEPT !.pc = "create"]
    ELSE ToAccess(st)

ToCreate(st) ==
    IF st.pvc.AutoCreateBucket
    THEN IF st.creds.nil THEN Panic(st, "creds")
         ELSE IF st.creds.APIKey # "" /\ st.creds.ServiceInstanceID = ""
              THEN Fail(st, "service-instance-id")
              ELSE [st EXCEPT !.pc = "create"]
    ELSE ToAccess(st)

ToCredentials(st) ==
    LET st1 == [st EXCEPT !.valBucket = ValBucket(st.pvc)]
    IN  IF st1.valBucket THEN [st1 EXCEPT !.pc = "getcreds"] ELSE ToCreate(st1)

\* Provision up to its first collaborator call
ProvisionEntry(st) ==
    LET a == UnmarshalMap(pvcAnnotations, st.annotations)
        p == UnmarshalMap(scOptions, st.parameters)
        pvc == a.val @@ ZeroStruct(pvAnnotations)
        st1 == [st EXCEPT !.pvc = pvc, !.sc = ResolvedOptions(pvc, p.val)]
    IN  IF ~a.ok THEN Fail(st, "unmarshal-pvc")
        ELSE IF ~p.ok THEN Fail(st, "unmarshal-sc")
        ELSE IF ResolveError(pvc, p.val) # "" THEN Fail(st1, ResolveError(pvc, p.val))
        ELSE IF PolicyError(pvc) # "" THEN Fail(st1, PolicyError(pvc))
        ELSE IF pvc.AutoDeleteBucket THEN [st1 EXCEPT !.pc = "uuid"]
        ELSE ToCredentials(st1)

(***************************************************************************)
(* The collaborators' answers.                                             *)
(***************************************************************************)
\* UUIDGenerator.New: a token, or an error
UUIDResults == { [ok |-> TRUE, id |-> t] : t \in Tokens } \cup { [ok |-> FALSE, id |-> ""] }

\* sess.CreateBucket: the bucket exists afterwards, or the call fails
CreateBucketResults(bs, b) ==
    { [ok |-> TRUE, buckets |-> bs \cup {b}], [ok |-> FALSE, buckets |-> bs] }

\* sess.CheckBucketAccess: only an existing bucket can be accessed
CheckBucketAccessResults(bs, b) == IF b \in bs THEN {TRUE, FALSE} ELSE {FALSE}

\* sess.CheckObjectPathExistence: (exist, err)
CheckObjectPathResults ==
    { [exist |-> TRUE, ok |-> TRUE], [exist |-> FALSE, ok |-> TRUE],
      [exist |-> FALSE, ok |-> FALSE] }

\* sess.DeleteBucket: the bucket is gone afterwards, or the call fails and
\* leaves it as it was
DeleteBucketResults(bs, b) ==
    { [ok |-> TRUE, buckets |-> bs \ {b}], [ok |-> FALSE, buckets |-> bs] }

(***************************************************************************)
(* Provision: the actions.                                                 *)
(***************************************************************************)
Set(i, st) == inv' = [inv EXCEPT ![i] = st]

\* Provision is called with a claim, the parameters of its class and the
\* namespace of the claim
ProvisionStart(i) ==
    /\ inv[i].kind = "none"
    /\ nProv < MaxProvisions
    /\ \E a \in ClaimAnnotations, p \in ClassParameters, ns \in Namespaces :
          Set(i, ProvisionEntry([Idle EXCEPT !.kind = "provision", !.annotations = a,
                                              !.parameters = p, !.namespace = ns,
                                              !.bucketsAtStart = buckets]))
    /\ nProv' = nProv + 1
    /\ UNCHANGED <<buckets, volumes, delObs, nDel>>

\* Provision is called with a claim and a class of the tuning samples
ProvisionStartTuning(i) ==
    /\ inv[i].kind = "none"
    /\ nProv < MaxProvisions
    /\ \E a \in TuningAnnotations, p \in TuningParameters, ns \in Namespaces :
          Set(i, ProvisionEntry([Idle EXCEPT !.kind = "provision", !.annotations = a,
                                              !.parameters = p, !.namespace = ns,
                                              !.bucketsAtStart = buckets]))
    /\ nProv' = nProv + 1
    /\ UNCHANGED <<buckets, volumes, delObs, nDel>>

ProvisionUUID_NoToken(i) ==
    /\ inv[i].kind = "provision" /\ inv[i].pc = "uuid"
    /\ \E r \in UUIDResults :
          LET st == Logged(inv[i], [op |-> "UUID", ok |-> r.ok, id |-> r.id])
          IN  Set(i, IF ~r.ok THEN Fail(st, "uuid")
                     ELSE ToCredentials([st EXCEPT !.pvc.Bucket = autoBucketNamePrefix]))
    /\ UNCHANGED <<buckets, volumes, delObs, nProv, nDel>>

\* Provision after the generator answered r
OnUUID(st0, r) ==
    LET st == Logged(st0, [op |-> "UUID", ok |-> r.ok, id |-> r.id])
    IN  IF ~r.ok THEN Fail(st, "uuid")
        ELSE ToCredentials([st EXCEPT !.pvc.Bucket = autoBucketNamePrefix \o r.id])

\* the bucket name is generated
ProvisionUUID(i) ==
    /\ inv[i].kind = "provision" /\ inv[i].pc = "uuid"
    /\ \E r \in UUIDResults : Set(i, OnUUID(inv[i], r))
    /\ UNCHANGED <<buckets, volumes, delObs, nProv, nDel>>

\* Provision after the secret store answered resp
OnSecret(st0, resp) ==
    LET c == getCredentials(resp)
        st == Logged(st0, [op |-> "GetSecret", name |-> st0.pvc.SecretName,
                           ns |-> st0.namespace, ok |-> c.ok, resp |-> resp])
        creds == [c.creds EXCEPT !.IAMEndpoint = st.sc.IAMEndpoint]
        sess == NewObjectStorageSession(st.sc.OSEndpoint, st.sc.OSStorageClass, creds)
    IN  IF ~c.ok THEN Fail(st, "credentials")
        ELSE ToCreate(Logged([st EXCEPT !.creds = creds, !.sess = sess],
                             [op |-> "NewSession", sess |-> sess, ok |-> TRUE]))

ProvisionGetCredentials_SharedSession(i) ==
    /\ inv[i].kind = "provision" /\ inv[i].pc = "getcreds"
    /\ \E resp \in SecretResponses :
          LET st == OnSecret(inv[i], resp)
              open == { j \in DOMAIN inv \ {i} : ~inv[j].sess.nil }
          IN  Set(i, IF open # {} /\ ~st.sess.nil
                     THEN [st EXCEPT !.sess = inv[CHOOSE j \in open : TRUE].sess]
                     ELSE st)
    /\ UNCHANGED <<buckets, volumes, delObs, nProv, nDel>>

\* the credentials are read and the session is opened
ProvisionGetCredentials(i) ==
    /\ inv[i].kind = "provision" /\ inv[i].pc = "getcreds"
    /\ \E resp \in SecretResponses : Set(i, OnSecret(inv[i], resp))
    /\ UNCHANGED <<buckets, volumes, delObs, nProv, nDel>>

ProvisionCreateBucket_IgnoreError(i) ==
    /\ inv[i].kind = "provision" /\ inv[i].pc = "create"
    /\ IF inv[i].sess.nil
       THEN Set(i, Panic(inv[i], "sess")) /\ UNCHANGED buckets
       ELSE \E r \in CreateBucketResults(buckets, inv[i].pvc.Bucket) :
               LET st == Logged(inv[i], [op |-> "CreateBucket", bucket |-> inv[i].pvc.Bucket,
                                         sess |-> inv[i].sess, ok |-> r.ok])
               IN  /\ Set(i, ToAccess(st))
                   /\ buckets' = r.buckets
    /\ UNCHANGED <<volumes, delObs, nProv, nDel>>

\* Provision after CreateBucket answered
OnCreateBucket(st0, ok) ==
    LET st == Logged(st0, [op |-> "CreateBucket", bucket |-> st0.pvc.Bucket,
                           sess |-> st0.sess, ok |-> ok])
    IN  IF ~ok THEN Fail(st, "create-bucket") ELSE ToAccess(st)

\* the bucket is created
ProvisionCreateBucket(i) ==
    /\ inv[i].kind = "provision" /\ inv[i].pc = "create"
    /\ IF inv[i].sess.nil
       THEN Set(i, Panic(inv[i], "sess")) /\ UNCHANGED buckets
       ELSE \E r \in CreateBucketResults(buckets, inv[i].pvc.Bucket) :
               /\ Set(i, OnCreateBucket(inv[i], r.ok))
               /\ buckets' = r.buckets
    /\ UNCHANGED <<volumes, delObs, nProv, nDel>>

ProvisionCheckBucketAccess_Rollback(i) ==
    /\ inv[i].kind = "provision" /\ inv[i].pc = "access"
    /\ IF inv[i].sess.nil
       THEN Set(i, Panic(inv[i], "sess")) /\ UNCHANGED buckets
       ELSE \E ok \in CheckBucketAccessResults(buckets, inv[i].pvc.Bucket) :
               LET st == Logged(inv[i], [op |-> "CheckBucketAccess",
                                         bucket |-> inv[i].pvc.Bucket,
                                         sess |-> inv[i].sess, ok |-> ok])
                   undo == ~ok /\ st.pvc.AutoCreateBucket
               IN  /\ Set(i, IF ok THEN ToObjectPath(st)
                             ELSE IF undo
                             THEN Fail(Logged(st, [op |-> "DeleteBucket",
                                                   bucket |-> st.pvc.Bucket,
                                                   sess |-> st.sess, ok |-> TRUE]),
                                       "check-bucket-access")
                             ELSE Fail(st, "check-bucket-access"))
                   /\ buckets' = IF undo THEN buckets \ {st.pvc.Bucket} ELSE buckets
    /\ UNCHANGED <<volumes, delObs, nProv, nDel>>

\* Provision after CheckBucketAccess answered
OnCheckBucketAccess(st0, ok) ==
    LET st == Logged(st0, [op |-> "CheckBucketAccess", bucket |-> st0.pvc.Bucket,
                           sess |-> st0.sess, ok |-> ok])
    IN  IF ~ok THEN Fail(st, "check-bucket-access") ELSE ToObjectPath(st)

\* the access to the bucket is checked
ProvisionCheckBucketAccess(i) ==
    /\ inv[i].kind = "provision" /\ inv[i].pc = "access"
    /\ IF inv[i].sess.nil
       THEN Set(i, Panic(inv[i], "sess"))
       ELSE \E ok \in CheckBucketAccessResults(buckets, inv[i].pvc.Bucket) :
               Set(i, OnCheckBucketAccess(inv[i], ok))
    /\ UNCHANGED <<buckets, volumes, delObs, nProv, nDel>>

\* Provision after CheckObjectPathExistence answered r
OnCheckObjectPath(st0, r) ==
    LET st == Logged(st0, [op |-> "CheckObjectPathExistence", bucket |-> st0.pvc.Bucket,
                           path |-> st0.pvc.ObjectPath, sess |-> st0.sess,
                           ok |-> r.ok, exist |-> r.exist])
    IN  IF ~r.ok THEN Fail(st, "check-object-path")
        ELSE IF ~r.exist THEN Fail(st, "object-path-not-found")
        ELSE BuildVolume(st)

\* the object path is looked for in the bucket
ProvisionCheckObjectPath(i) ==
    /\ inv[i].kind = "provision" /\ inv[i].pc = "objpath"
    /\ IF inv[i].sess.nil
       THEN Set(i, Panic(inv[i], "sess"))
       ELSE \E r \in CheckObjectPathResults : Set(i, OnCheckObjectPath(inv[i], r))
    /\ UNCHANGED <<buckets, volumes, delObs, nProv, nDel>>

(***************************************************************************)
(* Delete.                                                                 *)
(***************************************************************************)
\* the volume handed to Delete: as Provision returned it, or changed since
Tamperings == {"none", "options", "delete-flag", "create-flag"}

Tamper(pv, t) ==
    CASE t = "options" ->
            [pv EXCEPT !.Options = ("object-store-endpoint" :> "https://s3.other") @@ @]
      [] t = "delete-flag" ->
            [pv EXCEPT !.Annotations = ("ibm.io/auto-delete-bucket" :> "maybe") @@ @]
      [] t = "create-flag" ->
            [pv EXCEPT !.Annotations = ("ibm.io/auto-create-bucket" :> "maybe") @@ @]
      [] OTHER -> pv

DeleteSessionParams_WrongKey(pv) ==
    [endpointValue |-> MapGet(pv.Options, "endpoint"),
     regionValue |-> MapGet(pv.Options, "object-store-storage-class"),
     iamEndpoint |-> MapGet(pv.Options, "iam-endpoint")]

DeleteSessionParams_FromAnnotations(pv) ==
    LET a == UnmarshalMap(pvAnnotations, pv.Annotations).val
    IN  [endpointValue |-> a.Endpoint, regionValue |-> a.Region,
         iamEndpoint |-> a.IAMEndpoint]

\* the session parameters Delete reads from the volume
DeleteSessionParams(pv) ==
    [endpointValue |-> MapGet(pv.Options, "object-store-endpoint"),
     regionValue |-> MapGet(pv.Options, "object-store-storage-class"),
     iamEndpoint |-> MapGet(pv.Options, "iam-endpoint")]

DeleteEntry_IgnoreFlag(st) ==
    LET sp == DeleteSessionParams(st.pv)
        a == UnmarshalMap(pvAnnotations, st.pv.Annotations)
        st1 == [st EXCEPT !.endpointValue = sp.endpointValue,
                          !.regionValue = sp.regionValue,
                          !.iamEndpoint = sp.iamEndpoint, !.pvc = a.val]
    IN  IF ~a.ok THEN Fail(st1, "unmarshal-pv")
        ELSE [st1 EXCEPT !.pc = "del-getcreds"]

\* Delete up to its first collaborator call
DeleteEntry(st) ==
    LET sp == DeleteSessionParams(st.pv)
        a == UnmarshalMap(pvAnnotations, st.pv.Annotations)
        st1 == [st EXCEPT !.endpointValue = sp.endpointValue,
                          !.regionValue = sp.regionValue,
                          !.iamEndpoint = sp.iamEndpoint, !.pvc = a.val]
    IN  IF ~a.ok THEN Fail(st1, "unmarshal-pv")
        ELSE IF a.val.AutoDeleteBucket THEN [st1 EXCEPT !.pc = "del-getcreds"]
        ELSE Finish(st1, "ok", "", NilVolume)

\* Delete is called with a volume that Provision returned
DeleteStart(i) ==
    /\ inv[i].kind = "none"
    /\ nDel < MaxDeletes
    /\ \E v \in volumes, t \in Tamperings :
          Set(i, DeleteEntry([Idle EXCEPT !.kind = "delete", !.pv = Tamper(v.pv, t),
                                          !.origin = <<v.used>>, !.tamper = t,
                                          !.bucketsAtStart = buckets]))
    /\ nDel' = nDel + 1
    /\ UNCHANGED <<buckets, volumes, delObs, nProv>>

DeleteGetCredentials_IgnoreError(i) ==
    /\ inv[i].kind = "delete" /\ inv[i].pc = "del-getcreds"
    /\ \E resp \in SecretResponses :
          LET c == getCredentials(resp)
              st == Logged(inv[i], [op |-> "GetSecret", name |-> inv[i].pvc.SecretName,
                                    ns |-> inv[i].pvc.SecretNamespace, ok |-> c.ok,
                                    resp |-> resp])
              creds == [c.creds EXCEPT !.IAMEndpoint = st.iamEndpoint, !.nil = FALSE]
              sess == NewObjectStorageSession(st.endpointValue, st.regionValue, creds)
          IN  /\ Set(i, [Logged([st EXCEPT !.creds = creds, !.sess = sess],
                                [op |-> "NewSession", sess |-> sess, ok |-> TRUE])
                           EXCEPT !.pc = "del-bucket"])
              /\ delObs' = delObs \cup { [annotations |-> st.pv.Annotations,
                                          endpoint |-> sess.endpoint,
                                          region |-> sess.region,
                                          iamEndpoint |-> creds.IAMEndpoint] }
    /\ UNCHANGED <<buckets, volumes, nProv, nDel>>

\* deleteBucket after the secret store answered resp
OnDeleteSecret(st0, resp) ==
    LET c == getCredentials(resp)
        st == Logged(st0, [op |-> "GetSecret", name |-> st0.pvc.SecretName,
                           ns |-> st0.pvc.SecretNamespace, ok |-> c.ok, resp |-> resp])
        creds == [c.creds EXCEPT !.IAMEndpoint = st.iamEndpoint]
        sess == NewObjectStorageSession(st.endpointValue, st.regionValue, creds)
    IN  IF ~c.ok THEN Fail(st, "credentials")
        ELSE [Logged([st EXCEPT !.creds = creds, !.sess = sess],
                     [op |-> "NewSession", sess |-> sess, ok |-> TRUE])
                EXCEPT !.pc = "del-bucket"]

\* deleteBucket: the credentials are read and the session is opened
DeleteGetCredentials(i) ==
    /\ inv[i].kind = "delete" /\ inv[i].pc = "del-getcreds"
    /\ \E resp \in SecretResponses :
          LET st == OnDeleteSecret(inv[i], resp)
          IN  /\ Set(i, st)
              /\ delObs' = IF st.sess.nil THEN delObs
                           ELSE delObs \cup { [annotations |-> st.pv.Annotations,
                                               endpoint |-> st.sess.endpoint,
                                               region |-> st.sess.region,
                                               iamEndpoint |-> st.creds.IAMEndpoint] }
    /\ UNCHANGED <<buckets, volumes, nProv, nDel>>

\* deleteBucket after DeleteBucket answered
OnDeleteBucket(st0, ok) ==
    LET st == Logged(st0, [op |-> "DeleteBucket", bucket |-> st0.pvc.Bucket,
                           sess |-> st0.sess, ok |-> ok])
    IN  IF ~ok THEN Fail(st, "delete-bucket") ELSE Finish(st, "ok", "", NilVolume)

\* deleteBucket: the bucket is deleted
DeleteBucket(i) ==
    /\ inv[i].kind = "delete" /\ inv[i].pc = "del-bucket"
    /\ \E r \in DeleteBucketResults(buckets, inv[i].pvc.Bucket) :
          /\ Set(i, OnDeleteBucket(inv[i], r.ok))
          /\ buckets' = r.buckets
    /\ UNCHANGED <<volumes, delObs, nProv, nDel>>

(***************************************************************************)
(* The caller.                                                             *)
(***************************************************************************)
\* the calls of one operation in a call log
Calls(log, op) == SelectSeq(log, LAMBDA c : c.op = op)

\* what a Provision call used: the secret it read, the parameters of the
\* session it opened, the bucket it created, the bucket its claim named
UsedBy(st) ==
    LET secret == Calls(st.log, "GetSecret")
        session == Calls(st.log, "NewSession")
        created == SelectSeq(st.log, LAMBDA c : c.op = "CreateBucket" /\ c.ok)
    IN  [secret |-> { <<secret[k].name, secret[k].ns>> : k \in DOMAIN secret },
         session |-> { <<session[k].sess.endpoint, session[k].sess.region,
                         session[k].sess.creds.IAMEndpoint>> : k \in DOMAIN session },
         created |-> { created[k].bucket : k \in DOMAIN created },
         claimed |-> MapGet(st.annotations, "ibm.io/bucket")]

\* the caller takes the result; a volume that Provision returned is kept
Return(i) ==
    /\ inv[i].pc = "done"
    /\ inv[i].result # "panic"
    /\ volumes' = IF inv[i].kind = "provision" /\ inv[i].result = "ok"
                  THEN volumes \cup { [pv |-> inv[i].volume, used |-> UsedBy(inv[i])] }
                  ELSE volumes
    /\ Set(i, Idle)
    /\ UNCHANGED <<buckets, delObs, nProv, nDel>>

Init ==
    /\ inv = [i \in Slots |-> Idle]
    /\ buckets \in { {}, {"b1"} }
    /\ volumes = {}
    /\ delObs = {}
    /\ nProv = 0
    /\ nDel = 0

Next ==
    \E i \in Slots :
        \/ ProvisionStart(i)
        \/ ProvisionUUID(i)
        \/ ProvisionGetCredentials(i)
        \/ ProvisionCreateBucket(i)
        \/ ProvisionCheckBucketAccess(i)
        \/ ProvisionCheckObjectPath(i)
        \/ DeleteStart(i)
        \/ DeleteGetCredentials(i)
        \/ DeleteBucket(i)
        \/ Return(i)

Spec == Init /\ [][Next]_vars

\* one Provision call over the tuning samples
NextTuning ==
    \E i \in Slots :
        \/ ProvisionStartTuning(i)
        \/ ProvisionUUID(i)
        \/ ProvisionGetCredentials(i)
        \/ ProvisionCreateBucket(i)
        \/ ProvisionCheckBucketAccess(i)

SpecTuning == Init /\ [][NextTuning]_vars

(***************************************************************************)
(* Concurrent calls: the controller runs Provision and Delete on several   *)
(* goroutines of one provisioner.                                          *)
(***************************************************************************)
Workers == {1, 2}

\* the claims and the class of the concurrent calls
ConcurrentAnnotations ==
    { a \in PolicyAnnotations :
        /\ "ibm.io/validate-bucket" \notin DOMAIN a
        /\ "ibm.io/object-path" \in DOMAIN a =>
              a["ibm.io/auto-create-bucket"] = "false" /\ a["ibm.io/auto-delete-bucket"] = "false"
                /\ "ibm.io/bucket" \in DOMAIN a }

ConcurrentParameters ==
    { ClassTuning @@ ("ibm.io/object-store-endpoint" :> "https://s3.cls")
        @@ ("ibm.io/object-store-storage-class" :> "standard")
        @@ ("ibm.io/s3fs-fuse-retry-count" :> "5") }

\* a call that waits for a collaborator, after the collaborator answered
Answered(st, c) ==
    CASE st.pc = "uuid" -> OnUUID(st, c)
      [] st.pc = "getcreds" -> OnSecret(st, c.resp)
      [] st.pc = "create" -> OnCreateBucket(st, c.ok)
      [] st.pc = "access" -> OnCheckBucketAccess(st, c.ok)
      [] st.pc = "objpath" -> OnCheckObjectPath(st, c)
      [] st.pc = "del-getcreds" -> OnDeleteSecret(st, c.resp)
      [] st.pc = "del-bucket" -> OnDeleteBucket(st, c.ok)
      [] OTHER -> st

\* a call running with no other call beside it, given the answers
RECURSIVE RunAlone(_, _)
RunAlone(st, answers) ==
    IF st.pc = "done" THEN st
    ELSE IF st.pc \in {"create", "access", "objpath"} /\ st.sess.nil THEN Panic(st, "sess")
    ELSE IF answers = <<>> THEN st
    ELSE RunAlone(Answered(st, Head(answers)), Tail(answers))

\* the Provision calls that returned before the concurrent calls start: one
\* for a generated bucket and one for the bucket b1 of its claim
EarlierCalls ==
    LET call(a, bs, answers) ==
            RunAlone(ProvisionEntry([Idle EXCEPT !.kind = "provision", !.annotations = a,
                                                 !.parameters = CHOOSE p \in ConcurrentParameters : TRUE,
                                                 !.namespace = "ns1", !.bucketsAtStart = bs]),
                     answers)
        key == [resp |-> [found |-> TRUE,
                          data |-> (SecretAPIKey :> "APIK") @@ (SecretServiceInstanceID :> "SID")]]
    IN  { call(("ibm.io/auto-create-bucket" :> "true") @@ ("ibm.io/auto-delete-bucket" :> "true")
                 @@ ("ibm.io/secret-name" :> "s1"),
               {}, <<[ok |-> TRUE, id |-> "t2"], key, [ok |-> TRUE], [ok |-> TRUE]>>),
          call(("ibm.io/auto-create-bucket" :> "false") @@ ("ibm.io/auto-delete-bucket" :> "false")
                 @@ ("ibm.io/secret-name" :> "s1") @@ ("ibm.io/bucket" :> "b1"),
               {"b1"}, <<key, [ok |-> TRUE]>>) }

\* a worker calls Provision
ProvisionStartConcurrent(i) ==
    /\ inv[i].kind = "none"
    /\ \E a \in ConcurrentAnnotations, p \in ConcurrentParameters, ns \in Namespaces :
          Set(i, ProvisionEntry([Idle EXCEPT !.kind = "provision", !.annotations = a,
                                              !.parameters = p, !.namespace = ns,
                                              !.bucketsAtStart = buckets]))
    /\ nProv' = nProv + 1
    /\ UNCHANGED <<buckets, volumes, delObs, nDel>>

\* the volumes of the earlier calls are there, and so are their buckets
InitConcurrent ==
    /\ inv = [i \in Workers |-> Idle]
    /\ volumes = { [pv |-> st.volume, used |-> UsedBy(st)] : st \in EarlierCalls }
    /\ buckets = UNION { {st.pvc.Bucket} : st \in EarlierCalls }
    /\ delObs = {}
    /\ nProv = 0
    /\ nDel = 0

\* every worker runs one call
NextConcurrent ==
    \E i \in Workers :
        \/ ProvisionStartConcurrent(i)
        \/ ProvisionUUID(i)
        \/ ProvisionGetCredentials(i)
        \/ ProvisionCreateBucket(i)
        \/ ProvisionCheckBucketAccess(i)
        \/ ProvisionCheckObjectPath(i)
        \/ DeleteStart(i)
        \/ DeleteGetCredentials(i)
        \/ DeleteBucket(i)

SpecConcurrent == InitConcurrent /\ [][NextConcurrent]_vars

(***************************************************************************)
(* Properties.                                                             *)
(***************************************************************************)
BackendOps == {"CreateBucket", "CheckBucketAccess", "CheckObjectPathExistence", "DeleteBucket"}

HasCall(log, ops) == \E k \in DOMAIN log : log[k].op \in ops

Provisions == { i \in DOMAIN inv : inv[i].kind = "provision" }

Deletes == { i \in DOMAIN inv : inv[i].kind = "delete" }

\* the four policy rules, read off the annotations of the claim
BreaksPolicy(a) ==
    LET ac == MapGet(a, "ibm.io/auto-create-bucket") = "true"
        ad == MapGet(a, "ibm.io/auto-delete-bucket") = "true"
        b == MapGet(a, "ibm.io/bucket")
        op == MapGet(a, "ibm.io/object-path")
    IN  \/ op # "" /\ ac
        \/ ad /\ ~ac
        \/ ad /\ b # ""
        \/ ~ad /\ b = ""

PolicyErrors ==
    {"object-path-with-auto-create", "auto-delete-without-auto-create",
     "bucket-with-auto-delete", "bucket-not-specified"}

\* C1: a Provision call whose claim breaks one of the four policy rules
\* returns an error and no volume, and has looked up no secret, opened no
\* session and invoked no backend operation.
C1_PolicyBeforeSideEffects ==
    \A i \in Provisions :
        BreaksPolicy(inv[i].annotations) =>
            /\ inv[i].pc = "done"
            /\ inv[i].result = "error"
            /\ inv[i].volume.nil
            /\ ~HasCall(inv[i].log, {"GetSecret", "NewSession"} \cup BackendOps)

C1_Witness ==
    \E i \in Provisions :
        /\ BreaksPolicy(inv[i].annotations)
        /\ inv[i].err = "object-path-with-auto-create"
        /\ inv[i].result = "error"

\* the descriptor of the volume a Provision call returned, parsed
Descriptor(st) == UnmarshalMap(pvAnnotations, st.volume.Annotations)

Returned == { i \in Provisions : inv[i].pc = "done" /\ inv[i].result = "ok" }

\* the part of the round trip that concerns the secret and the bucket
RoundTripIdentity(st) ==
    LET d == Descriptor(st)
    IN  /\ d.ok
        /\ d.val.SecretName = st.pvc.SecretName
        /\ d.val.SecretName = MapGet(st.annotations, "ibm.io/secret-name")
        /\ d.val.SecretNamespace = st.namespace
        /\ d.val.Bucket = st.pvc.Bucket
        /\ d.val.AutoDeleteBucket = st.pvc.AutoDeleteBucket
        /\ \A k \in DOMAIN st.log :
              /\ st.log[k].op = "GetSecret" =>
                    d.val.SecretName = st.log[k].name /\ d.val.SecretNamespace = st.log[k].ns
              /\ st.log[k].op \in BackendOps => d.val.Bucket = st.log[k].bucket

SymmetricDeletes ==
    { i \in Deletes : inv[i].tamper = "none"
                        /\ MapGet(inv[i].pv.Annotations, "ibm.io/auto-delete-bucket") = "true" }

\* C3: Delete of an unmodified volume that Provision returned with
\* auto-delete set looks up the secret Provision looked up, opens its
\* session with the endpoint, region and IAM endpoint of Provision's
\* session, and deletes the bucket that Provision created.
C3_SymmetricTeardown ==
    \A i \in SymmetricDeletes :
        LET st == inv[i]
            o == st.origin[1]
        IN  /\ Cardinality(o.secret) = 1 /\ Cardinality(o.session) = 1
            /\ Cardinality(o.created) = 1
            /\ \A k \in DOMAIN st.log :
                  /\ st.log[k].op = "GetSecret" => <<st.log[k].name, st.log[k].ns>> \in o.secret
                  /\ st.log[k].op = "NewSession" =>
                        <<st.log[k].sess.endpoint, st.log[k].sess.region,
                          st.log[k].sess.creds.IAMEndpoint>> \in o.session
                  /\ st.log[k].op = "DeleteBucket" =>
                        /\ st.log[k].bucket \in o.created
                        /\ <<st.log[k].sess.endpoint, st.log[k].sess.region,
                             st.log[k].sess.creds.IAMEndpoint>> \in o.session
            /\ st.pc = "done" => HasCall(st.log, {"GetSecret"})
            /\ st.pc = "done" /\ st.result = "ok" => HasCall(st.log, {"DeleteBucket"})

C3_Witness ==
    \E i \in SymmetricDeletes :
        /\ inv[i].pc = "done" /\ inv[i].result = "ok"
        /\ \E k \in DOMAIN inv[i].log :
              /\ inv[i].log[k].op = "DeleteBucket"
              /\ inv[i].log[k].sess.endpoint = "https://s3.cls"
              /\ inv[i].log[k].sess.region = "standard"
              /\ inv[i].log[k].bucket = autoBucketNamePrefix \o "t1"

Unvalidated ==
    { i \in Provisions :
        /\ MapGet(inv[i].annotations, "ibm.io/validate-bucket") = "no"
        /\ MapGet(inv[i].annotations, "ibm.io/auto-create-bucket") = "false"
        /\ UnmarshalMap(pvcAnnotations, inv[i].annotations).ok
        /\ UnmarshalMap(scOptions, inv[i].parameters).ok
        /\ ~BreaksPolicy(inv[i].annotations)
        /\ inv[i].err \notin PolicyErrors
        /\ ResolveError(inv[i].pvc, UnmarshalMap(scOptions, inv[i].parameters).val) = "" }

\* C5: a Provision call with validate-bucket "no" and auto-create off that
\* passes the resolution and the policy validation looks up no secret,
\* opens no session, invokes no backend operation, and succeeds.
C5_UnvalidatedSucceeds ==
    \A i \in Unvalidated :
        /\ ~HasCall(inv[i].log, {"GetSecret", "NewSession"} \cup BackendOps)
        /\ inv[i].pc = "done" => inv[i].result = "ok" /\ ~inv[i].volume.nil

\* the index of the calls of an operation in a log
IndexOf(log, op) == { k \in DOMAIN log : log[k].op = op }

\* C6: in a Provision call with auto-create set, a successful CreateBucket
\* is followed by CheckBucketAccess on the same bucket, whatever
\* validate-bucket says; a Provision call with auto-create that returns a
\* volume has called both.
C6_CreateForcesValidation ==
    \A i \in Provisions :
        LET st == inv[i]
        IN  MapGet(st.annotations, "ibm.io/auto-create-bucket") = "true" =>
               /\ \A k \in IndexOf(st.log, "CreateBucket") :
                     st.log[k].ok =>
                        \/ st.pc = "access" /\ st.pvc.Bucket = st.log[k].bucket
                                            /\ k = Len(st.log)
                        \/ \E n \in IndexOf(st.log, "CheckBucketAccess") :
                              n > k /\ st.log[n].bucket = st.log[k].bucket
               /\ st.pc = "done" /\ st.result = "ok" =>
                     /\ \E k \in IndexOf(st.log, "CreateBucket") : st.log[k].ok
                     /\ \E k \in IndexOf(st.log, "CheckBucketAccess") : st.log[k].ok

C6_Witness ==
    \E i \in Returned :
        /\ MapGet(inv[i].annotations, "ibm.io/auto-create-bucket") = "true"
        /\ MapGet(inv[i].annotations, "ibm.io/validate-bucket") = "no"
        /\ \E k \in IndexOf(inv[i].log, "CreateBucket"), n \in IndexOf(inv[i].log, "CheckBucketAccess") :
              n > k /\ inv[i].log[n].bucket = inv[i].log[k].bucket

\* Delete calls of a volume whose annotations parse, with auto-delete off
KeptDeletes ==
    { i \in Deletes :
        /\ UnmarshalMap(pvAnnotations, inv[i].pv.Annotations).ok
        /\ MapGet(inv[i].pv.Annotations, "ibm.io/auto-delete-bucket") # "true" }

\* C7: Delete of a volume whose descriptor has auto-delete off looks up no
\* secret, opens no session, invokes no backend operation, leaves the
\* buckets as they were, and returns success.
C7_DeleteNoOp ==
    \A i \in KeptDeletes :
        /\ inv[i].log = <<>>
        /\ inv[i].pc = "done"
        /\ inv[i].result = "ok"
        /\ buckets = inv[i].bucketsAtStart

C7_Witness ==
    \E i \in KeptDeletes :
        /\ inv[i].result = "ok"
        /\ MapGet(inv[i].pv.Annotations, "ibm.io/bucket") = "b1"
        /\ "b1" \in buckets

\* a call of the log that failed (a path that was not found counts)
FailedCall(c) ==
    ~c.ok \/ (c.op = "CheckObjectPathExistence" /\ ~c.exist)

\* C8: once a step of a Provision call fails, the call invokes nothing
\* more, repeats no step, and returns an error and no volume.
C8_FailFast ==
    \A i \in Provisions :
        LET st == inv[i]
        IN  /\ \A k \in DOMAIN st.log :
                  FailedCall(st.log[k]) =>
                     k = Len(st.log) /\ st.pc = "done" /\ st.result = "error"
            /\ st.err # "" /\ st.result # "panic" =>
                  st.pc = "done" /\ st.result = "error" /\ st.volume.nil
            /\ st.result = "error" =>
                  st.err # "" /\ st.volume.nil
                     /\ (st.log # <<>> /\ st.err # "service-instance-id"
                            => FailedCall(st.log[Len(st.log)]))
            /\ \A k, n \in DOMAIN st.log : st.log[k].op = st.log[n].op => k = n

C8_Witness ==
    \E i \in Provisions :
        /\ inv[i].result = "error" /\ inv[i].err = "create-bucket"
        /\ Len(inv[i].log) = 4
        /\ inv[i].log[1].op = "UUID"

\* C9: Provision never deletes a bucket: a bucket that CreateBucket created
\* in a Provision call exists when the call fails later, and every bucket
\* that existed when the call began still exists.
C9_NoRollback ==
    \A i \in Provisions :
        /\ ~HasCall(inv[i].log, {"DeleteBucket"})
        /\ inv[i].bucketsAtStart \subseteq buckets
        /\ \A k \in IndexOf(inv[i].log, "CreateBucket") :
              inv[i].log[k].ok => inv[i].log[k].bucket \in buckets

C9_Witness ==
    \E i \in Provisions :
        /\ inv[i].result = "error" /\ inv[i].err = "check-bucket-access"
        /\ \E k \in IndexOf(inv[i].log, "CreateBucket") :
              /\ inv[i].log[k].ok
              /\ inv[i].log[k].bucket \in buckets \ inv[i].bucketsAtStart

\* C10: when Delete returns an error the buckets are as they were when it
\* was called; when the annotations do not parse or the credentials cannot
\* be read, Delete returns an error and has not called DeleteBucket.
C10_FailedDeleteTouchesNothing ==
    \A i \in Deletes :
        LET st == inv[i]
        IN  /\ st.result = "error" => buckets = st.bucketsAtStart
            /\ (~UnmarshalMap(pvAnnotations, st.pv.Annotations).ok
                   \/ \E k \in IndexOf(st.log, "GetSecret") : ~st.log[k].ok) =>
                  /\ ~HasCall(st.log, {"DeleteBucket"})
                  /\ st.pc # "del-bucket"
                  /\ st.pc = "done" => st.result = "error"

C10_Witness ==
    \E i \in Deletes :
        /\ inv[i].result = "error" /\ inv[i].err = "credentials"
        /\ MapGet(inv[i].pv.Annotations, "ibm.io/bucket") \in buckets
        /\ MapGet(inv[i].pv.Annotations, "ibm.io/auto-delete-bucket") = "true"

\* the class of the error taxonomy a failure of Provision belongs to
ErrorClass(err) ==
    CASE err \in {"unmarshal-pvc", "unmarshal-sc", "s3fs-fuse-retry-count", "chunk-size-mb",
                  "parallel-count", "multireq-max", "stat-cache-size",
                  "stat-cache-expire-seconds"} -> "ConfigParseError"
      [] err \in PolicyErrors \cup {"object-store-endpoint", "iam-endpoint",
                                    "stat-cache-expire-seconds-negative",
                                    "service-instance-id", "object-path-not-found"}
            -> "ValidationError"
      [] err \in {"credentials"} -> "CredentialError"
      [] err \in {"create-bucket", "check-bucket-access", "check-object-path",
                  "delete-bucket"} -> "BackendError"
      [] OTHER -> "Other"

\* Provision calls of a claim with auto-delete set and auto-create off
DeleteWithoutCreate ==
    { i \in Provisions :
        /\ MapGet(inv[i].annotations, "ibm.io/auto-delete-bucket") = "true"
        /\ MapGet(inv[i].annotations, "ibm.io/auto-create-bucket") = "false" }

\* a string of the claim or of the class that stands for a number is malformed
MalformedNumber(st) ==
    \/ ~UnmarshalMap(scOptions, st.parameters).ok
    \/ \E k \in {"ibm.io/s3fs-fuse-retry-count", "ibm.io/chunk-size-mb",
                 "ibm.io/parallel-count", "ibm.io/multireq-max", "ibm.io/stat-cache-size",
                 "ibm.io/stat-cache-expire-seconds"} : BadInt(MapGet(st.annotations, k))

APIKeyShape(c) == c.APIKey # ""

HMACShape(c) == c.AccessKey # "" /\ c.SecretKey # ""

\* C12: the credentials getCredentials returned hold exactly one of the two
\* shapes, the API key or the access key with the secret key.
C12_ExactlyOneShape ==
    \A i \in DOMAIN inv :
        ~inv[i].creds.nil => (APIKeyShape(inv[i].creds) # HMACShape(inv[i].creds))

\* the credentials are an API key without a service instance id
KeyWithoutInstance(c) == ~c.nil /\ c.APIKey # "" /\ c.ServiceInstanceID = ""

\* C13: CreateBucket is never called with an API key that has no service
\* instance id: Provision then fails before any backend operation; a
\* Provision call that does not create the bucket is not rejected for the
\* missing id and goes on to CheckBucketAccess.
C13_DeferredInstanceGuard ==
    \A i \in Provisions :
        LET st == inv[i]
        IN  /\ \A k \in IndexOf(st.log, "CreateBucket") :
                  ~KeyWithoutInstance(st.log[k].sess.creds)
            /\ st.pvc.AutoCreateBucket /\ KeyWithoutInstance(st.creds) =>
                  /\ st.pc = "done" /\ st.result = "error"
                  /\ st.err = "service-instance-id"
                  /\ ~HasCall(st.log, BackendOps)
            /\ ~st.pvc.AutoCreateBucket /\ KeyWithoutInstance(st.creds) =>
                  /\ st.err # "service-instance-id"
                  /\ st.pc = "access" \/ HasCall(st.log, {"CheckBucketAccess"})
            /\ st.err = "service-instance-id" =>
                  st.pvc.AutoCreateBucket /\ KeyWithoutInstance(st.creds)

C13_Witness ==
    \E i \in Provisions :
        /\ inv[i].pvc.AutoCreateBucket /\ KeyWithoutInstance(inv[i].creds)
        /\ inv[i].err = "service-instance-id"
        /\ Len(inv[i].log) = 3

\* the value the precedence rule picks
Preferred(claimVal, classVal) == IF claimVal # "" THEN claimVal ELSE classVal

\* the number a decimal string stands for, 0 for the absent one
Number(s) == IF s = "" THEN 0 ELSE Atoi(s).val

\* C14: for every overridable field, the value Provision uses, in the
\* parameters of its session and in the flex-volume options of the volume
\* it returns, is the value of the claim when the claim sets one and the
\* value of the class otherwise.
C14_OverridePrecedence ==
    \A i \in Provisions :
        LET st == inv[i]
            a == st.annotations
            p == st.parameters
            want(f) == Preferred(MapGet(a, f.claim), MapGet(p, f.class))
        IN  /\ \A k \in IndexOf(st.log, "NewSession") :
                  /\ st.log[k].sess.endpoint =
                        Preferred(MapGet(a, "ibm.io/endpoint"),
                                  MapGet(p, "ibm.io/object-store-endpoint"))
                  /\ st.log[k].sess.region =
                        Preferred(MapGet(a, "ibm.io/region"),
                                  MapGet(p, "ibm.io/object-store-storage-class"))
                  /\ st.log[k].sess.creds.IAMEndpoint =
                        Preferred(MapGet(a, "ibm.io/iam-endpoint"),
                                  MapGet(p, "ibm.io/iam-endpoint"))
            /\ st.pc = "done" /\ st.result = "ok" =>
                  /\ \A f \in StringOverrides : MapGet(st.volume.Options, f.option) = want(f)
                  /\ \A f \in IntOverrides :
                        /\ f.option \in DOMAIN st.volume.Options
                        /\ Number(st.volume.Options[f.option]) = Number(want(f))

C14_Witness ==
    \E i \in Returned :
        /\ HasCall(inv[i].log, {"NewSession"})
        /\ MapGet(inv[i].annotations, "ibm.io/region") = "us-geo"
        /\ MapGet(inv[i].parameters, "ibm.io/object-store-storage-class") = "standard"
        /\ MapGet(inv[i].annotations, "ibm.io/endpoint") = ""
        /\ MapGet(inv[i].annotations, "ibm.io/multireq-max") = "0"
        /\ MapGet(inv[i].parameters, "ibm.io/multireq-max") = "20"
        /\ MapGet(inv[i].annotations, "ibm.io/parallel-count") = ""
        /\ inv[i].volume.Options["multireq-max"] = "0"
        /\ inv[i].volume.Options["parallel-count"] = "20"
        /\ inv[i].volume.Options["object-store-storage-class"] = "us-geo"
        /\ inv[i].volume.Options["object-store-endpoint"] = "https://s3.cls"

\* the tokens the generator handed to a Provision call
TokensOf(st) == { st.log[k].id : k \in { n \in IndexOf(st.log, "UUID") : st.log[n].ok } }

\* the bucket names a Provision call used: in its backend calls and in the
\* descriptor of the volume it returned
NamesOf(st) ==
    { st.log[k].bucket : k \in { n \in DOMAIN st.log : st.log[n].op \in BackendOps } }
      \cup (IF st.pc = "done" /\ st.result = "ok" THEN {Descriptor(st).val.Bucket} ELSE {})

\* C15: Provision calls the token generator only when auto-create is set
\* and the claim names no bucket; the bucket of every backend call and of
\* the descriptor is then "tmp-s3fs-" followed by the token; two Provision
\* calls that received distinct tokens use distinct bucket names.
C15_GeneratedNames ==
    /\ \A i \in Provisions :
          /\ HasCall(inv[i].log, {"UUID"}) =>
                /\ MapGet(inv[i].annotations, "ibm.io/auto-create-bucket") = "true"
                /\ MapGet(inv[i].annotations, "ibm.io/bucket") = ""
          /\ \A t \in TokensOf(inv[i]) : NamesOf(inv[i]) \subseteq {"tmp-s3fs-" \o t}
          /\ inv[i].pc = "done" /\ inv[i].result = "ok" /\ TokensOf(inv[i]) # {} =>
                NamesOf(inv[i]) # {}
    /\ \A i, j \in Provisions :
          TokensOf(inv[i]) # {} /\ TokensOf(inv[j]) # {}
            /\ TokensOf(inv[i]) \cap TokensOf(inv[j]) = {} =>
                NamesOf(inv[i]) \cap NamesOf(inv[j]) = {}

C15_Witness ==
    \E i, j \in Provisions :
        /\ TokensOf(inv[i]) = {"t1"} /\ TokensOf(inv[j]) = {"t2"}
        /\ inv[i].pc = "done" /\ inv[i].result = "ok"
        /\ NamesOf(inv[i]) = {"tmp-s3fs-t1"}
        /\ inv[j].pc = "access"
        /\ NamesOf(inv[j]) = {"tmp-s3fs-t2"}

\* the place of a backend operation in the order of Provision
StepOf(op) ==
    CASE op = "CreateBucket" -> 1
      [] op = "CheckBucketAccess" -> 2
      [] op = "CheckObjectPathExistence" -> 3
      [] OTHER -> 4

UnmodifiedDeletes == { i \in Deletes : inv[i].tamper = "none" }

\* C17: over Provision calls followed by Delete calls of the volumes they
\* returned, unmodified, every bucket passed to DeleteBucket has a
\* generated "tmp-s3fs-" name and was created successfully by the
\* Provision call that returned the volume; a bucket that a claim named is
\* never passed to DeleteBucket.
C17_OnlyCreatedBucketsDeleted ==
    \A i \in UnmodifiedDeletes :
        LET st == inv[i]
            o == st.origin[1]
        IN  \A k \in IndexOf(st.log, "DeleteBucket") :
               /\ HasPrefix(st.log[k].bucket, "tmp-s3fs-")
               /\ st.log[k].bucket \in o.created
               /\ o.claimed = ""
               /\ \A v \in volumes : v.used.claimed # "" => st.log[k].bucket # v.used.claimed

C17_Witness ==
    \E i \in UnmodifiedDeletes :
        /\ inv[i].pc = "done" /\ inv[i].result = "ok"
        /\ \E k \in IndexOf(inv[i].log, "DeleteBucket") :
              /\ inv[i].log[k].bucket = "tmp-s3fs-t2"
              /\ inv[i].log[k].ok
              /\ inv[i].origin[1].created = {"tmp-s3fs-t2"}
        /\ "tmp-s3fs-t2" \notin buckets

\* C18: in every Provision call a backend operation is invoked only on the
\* session the call opened earlier, after its credentials were resolved,
\* and the credentials are read only after they were resolved: no method
\* of a session that was never opened is called and no field of
\* credentials that were never resolved is read.
C18_SessionAvailable ==
    \A i \in Provisions :
        LET st == inv[i]
        IN  /\ \A k \in { n \in DOMAIN st.log : st.log[n].op \in BackendOps } :
                  /\ ~st.log[k].sess.nil
                  /\ \E n \in IndexOf(st.log, "NewSession"), m \in IndexOf(st.log, "GetSecret") :
                        m < n /\ n < k /\ st.log[m].ok /\ st.log[n].sess = st.log[k].sess
            /\ st.pc \in {"create", "access", "objpath"} => ~st.sess.nil /\ ~st.creds.nil
            /\ st.result # "panic"

\* the answers the collaborators gave to a call, in order
Answers(log) == SelectSeq(log, LAMBDA c : c.op # "NewSession")

\* the call of a worker, run alone with the answers the worker got
Alone(st) ==
    LET start == IF st.kind = "provision"
                 THEN ProvisionEntry([Idle EXCEPT !.kind = "provision",
                                                  !.annotations = st.annotations,
                                                  !.parameters = st.parameters,
                                                  !.namespace = st.namespace,
                                                  !.bucketsAtStart = st.bucketsAtStart])
                 ELSE DeleteEntry([Idle EXCEPT !.kind = "delete", !.pv = st.pv,
                                               !.origin = st.origin, !.tamper = st.tamper,
                                               !.bucketsAtStart = st.bucketsAtStart])
    IN  RunAlone(start, Answers(st.log))

\* the session parameters and the bucket that belong to a call
OwnSession(st) ==
    IF st.kind = "provision"
    THEN <<Preferred(MapGet(st.annotations, "ibm.io/endpoint"),
                     MapGet(st.parameters, "ibm.io/object-store-endpoint")),
           Preferred(MapGet(st.annotations, "ibm.io/region"),
                     MapGet(st.parameters, "ibm.io/object-store-storage-class")),
           Preferred(MapGet(st.annotations, "ibm.io/iam-endpoint"),
                     MapGet(st.parameters, "ibm.io/iam-endpoint"))>>
    ELSE <<MapGet(st.pv.Options, "object-store-endpoint"),
           MapGet(st.pv.Options, "object-store-storage-class"),
           MapGet(st.pv.Options, "iam-endpoint")>>

OwnBuckets(st) ==
    IF st.kind = "delete" THEN {MapGet(st.pv.Annotations, "ibm.io/bucket")}
    ELSE IF MapGet(st.annotations, "ibm.io/bucket") # ""
    THEN {MapGet(st.annotations, "ibm.io/bucket")}
    ELSE {"tmp-s3fs-" \o t : t \in TokensOf(st)}

Running == { i \in DOMAIN inv : inv[i].kind # "none" }

\* C19: in every interleaving of concurrent Provision and Delete calls,
\* every backend operation of a call is issued on the session that call
\* opened, with the endpoint, region, IAM endpoint and credentials of that
\* call and on its own bucket, and the call's result, error and volume are
\* those of the same call running alone with the same answers of the
\* collaborators.
C19_NonInterference ==
    \A i \in Running :
        LET st == inv[i]
            alone == Alone(st)
        IN  /\ \A k \in { n \in DOMAIN st.log : st.log[n].op \in BackendOps } :
                  /\ \E n \in IndexOf(st.log, "NewSession") :
                        n < k /\ st.log[n].sess = st.log[k].sess
                  /\ <<st.log[k].sess.endpoint, st.log[k].sess.region,
                       st.log[k].sess.creds.IAMEndpoint>> = OwnSession(st)
                  /\ \E m \in IndexOf(st.log, "GetSecret") :
                        /\ m < k
                        /\ [st.log[k].sess.creds EXCEPT !.IAMEndpoint = ""]
                              = getCredentials(st.log[m].resp).creds
                  /\ st.log[k].bucket \in OwnBuckets(st)
            /\ alone.pc = st.pc
            /\ alone.result = st.result
            /\ alone.err = st.err
            /\ alone.volume = st.volume
            /\ alone.log = st.log

C19_Witness ==
    \E i, j \in Running :
        /\ inv[i].kind = "provision" /\ inv[i].pc = "access"
        /\ inv[j].kind = "delete" /\ inv[j].pc = "del-bucket"
        /\ inv[i].sess.creds.AccessKey = "AK"
        /\ inv[j].sess.creds.APIKey = "APIK"
        /\ inv[i].pvc.Bucket = "tmp-s3fs-t1"
        /\ inv[j].pvc.Bucket = "tmp-s3fs-t2"
        /\ HasCall(inv[i].log, {"CreateBucket"})

====
